---- MODULE Spec2Model ----
(***************************************************************************)
(* Model of src/app.py: the coordinate transformation handlers             *)
(* transform_coordinates, transform_batch and validate_coordinates, with   *)
(* the CRS registry, the accuracy table and get_utm_zone.                  *)
(*                                                                         *)
(* Numbers handled by transform_coordinates and transform_batch are        *)
(* fixed-point: the integer v stands for v / Unit, one decimal digit more  *)
(* than round(.., 6) keeps, so that rounding is observable.  The numbers   *)
(* handled by validate_coordinates are whole degrees or metres.            *)
(***************************************************************************)
EXTENDS Integers, Sequences, FiniteSets, TLC

MaxRows == 3

Decimals == 6
Unit == 10 ^ (Decimals + 1)

(***************************************************************************)
(* Python values: None, str, float (finite, inf, nan).                     *)
(***************************************************************************)
None == [t |-> "none", v |-> 0, s |-> ""]
Str(s) == [t |-> "str", v |-> 0, s |-> s]
Num(v) == [t |-> "num", v |-> v, s |-> ""]
Inf == [t |-> "inf", v |-> 0, s |-> ""]
NaN == [t |-> "nan", v |-> 0, s |-> ""]
\* a finite float whose value the model does not compute
Computed(what) == [t |-> "computed", v |-> 0, s |-> what]

IsNone(a) == a.t = "none"
IsFloat(a) == a.t \in {"num", "inf", "nan"}
IsFinite(a) == a.t = "num"

\* Python truth value of a value
Truthy(a) ==
    CASE a.t = "none" -> FALSE
      [] a.t = "str" -> a.s # ""
      [] a.t = "num" -> a.v # 0
      [] OTHER -> TRUE

\* Python's `a or b`
Or(a, b) == IF Truthy(a) THEN a ELSE b

\* the outcome of an expression that may raise
Value(a) == [raised |-> FALSE, msg |-> "", val |-> a]
Raise(m) == [raised |-> TRUE, msg |-> m, val |-> None]

\* the texts float() accepts, among the texts the model feeds it
FloatLiterals ==
    [s \in {"0", "-1.5", "5.6", "100", "200", "nan", "inf"} |->
        CASE s = "0" -> Num(0)
          [] s = "-1.5" -> Num(0 - (3 * Unit) \div 2)
          [] s = "5.6" -> Num((56 * Unit) \div 10)
          [] s = "100" -> Num(100 * Unit)
          [] s = "200" -> Num(200 * Unit)
          [] s = "nan" -> NaN
          [] s = "inf" -> Inf]

\* Python's float(a)
float(a) ==
    CASE IsFloat(a) -> Value(a)
      [] IsNone(a) ->
            Raise("float() argument must be a string or a real number, not 'NoneType'")
      [] OTHER ->
            IF a.s \in DOMAIN FloatLiterals
            THEN Value(FloatLiterals[a.s])
            ELSE Raise("could not convert string to float: '" \o a.s \o "'")

\* round() cutting the digits off instead of rounding
round_truncating(a) ==
    IF ~IsFinite(a) THEN a
    ELSE LET step == Unit \div (10 ^ Decimals)
         IN  Num((a.v \div step) * step)

\* Python's round(a, 6) of a float: half to even on the kept digit
round(a) ==
    IF ~IsFinite(a) THEN a
    ELSE LET step == Unit \div (10 ^ Decimals)
             q == a.v \div step
             r == a.v % step
         IN  Num(CASE 2 * r < step -> q * step
                   [] 2 * r > step -> (q + 1) * step
                   [] OTHER -> IF q % 2 = 0 THEN q * step ELSE (q + 1) * step)

(***************************************************************************)
(* The registry and the accuracy table.                                    *)
(***************************************************************************)
CRS_DEFINITIONS ==
    [c \in {"WGS84", "UTM_30N", "UTM_31N", "GHANA_GRID", "WEB_MERCATOR"} |->
        CASE c = "WGS84" -> "EPSG:4326"
          [] c = "UTM_30N" -> "EPSG:32630"
          [] c = "UTM_31N" -> "EPSG:32631"
          [] c = "GHANA_GRID" -> "+proj=tmerc +lat_0=4.666666666666667 +lon_0=-1 +k=0.99975 +x_0=274319.51 +y_0=0 +ellps=clrk80 +towgs84=-199,32,322,0,0,0,0 +units=m +no_defs"
          [] c = "WEB_MERCATOR" -> "EPSG:3857"]

\* CRS_DEFINITIONS.get(code): the definition, or "" for None
CrsGet(code) == IF code \in DOMAIN CRS_DEFINITIONS THEN CRS_DEFINITIONS[code] ELSE ""

TRANSFORMATION_ACCURACY ==
    [k \in {"WGS84_to_UTM", "WGS84_to_GHANA_GRID", "UTM_to_GHANA_GRID", "GHANA_GRID_to_WGS84"} |->
        CASE k = "WGS84_to_UTM" ->
                [accuracy |-> "< 1 meter",
                 description |-> "High accuracy transformation using standard UTM projection parameters",
                 use_case |-> "Engineering surveys, cadastral mapping, GIS applications"]
          [] k = "WGS84_to_GHANA_GRID" ->
                [accuracy |-> "1-5 meters",
                 description |-> "Uses Helmert transformation with 7 parameters. Accuracy depends on the datum shift parameters",
                 use_case |-> "Land surveying in Ghana, integration with national mapping systems"]
          [] k = "UTM_to_GHANA_GRID" ->
                [accuracy |-> "1-5 meters",
                 description |-> "Involves datum transformation via WGS84. Compound transformation may introduce small errors",
                 use_case |-> "Converting international survey data to Ghana national system"]
          [] k = "GHANA_GRID_to_WGS84" ->
                [accuracy |-> "1-5 meters",
                 description |-> "Reverse Helmert transformation. Accuracy similar to forward transformation",
                 use_case |-> "Publishing Ghana survey data in international standard format"]]

GenericAccuracy ==
    [accuracy |-> "1-5 meters",
     description |-> "Standard transformation accuracy for properly defined CRS",
     use_case |-> "General GIS and surveying applications"]

\* f"{source_crs}_to_{target_crs}"
transform_key(source_crs, target_crs) == source_crs \o "_to_" \o target_crs

\* the accuracy block attached to a result
AccuracyFor(source_crs, target_crs) ==
    IF transform_key(source_crs, target_crs) \in DOMAIN TRANSFORMATION_ACCURACY
    THEN TRANSFORMATION_ACCURACY[transform_key(source_crs, target_crs)]
    ELSE GenericAccuracy

\* get_utm_zone(longitude), longitude a float
get_utm_zone(longitude) ==
    IF IsFinite(longitude) /\ 0 - 6 * Unit <= longitude.v /\ longitude.v < 0
    THEN "UTM_30N"
    ELSE IF IsFinite(longitude) /\ 0 <= longitude.v /\ longitude.v <= 6 * Unit
         THEN "UTM_31N"
         ELSE "UTM_30N"

\* str.startswith
StartsWith(s, p) == Len(s) >= Len(p) /\ SubSeq(s, 1, Len(p)) = p

(***************************************************************************)
(* The projection library behind Transformer.from_crs(..., always_xy=True) *)
(* and transformer.transform(x, y).  A scalar goes through float(), which  *)
(* the library reports as a TypeError when it fails.  A point the library  *)
(* cannot project comes back as inf (no exception is raised); the value of *)
(* a finite projection is not computed here, it is one of ProjOut.         *)
(***************************************************************************)
from_crs(source_def, target_def) == [source |-> source_def, target |-> target_def]

ProjOut == {<<12345678, 98765433>>, <<20000004, 30000006>>}

Projected(tx, ty) == [raised |-> FALSE, msg |-> "", tx |-> tx, ty |-> ty]
ProjRaise(m) == [raised |-> TRUE, msg |-> m, tx |-> None, ty |-> None]

\* spherical Mercator has no image of a pole
Singular(transformer, fx, fy) ==
    /\ transformer.source = "EPSG:4326"
    /\ transformer.target = "EPSG:3857"
    /\ (fy.v >= 90 * Unit \/ fy.v <= 0 - 90 * Unit)

\* the outcomes of transformer.transform(x, y)
transform(transformer, x, y) ==
    LET fx == float(x)
        fy == float(y)
    IN  IF fx.raised \/ fy.raised THEN {ProjRaise("input must be a scalar")}
        ELSE IF transformer.source = transformer.target
             THEN {Projected(fx.val, fy.val)}
        ELSE IF ~IsFinite(fx.val) \/ ~IsFinite(fy.val) THEN {Projected(Inf, Inf)}
        ELSE IF Singular(transformer, fx.val, fy.val) THEN {Projected(Inf, Inf)}
        ELSE {Projected(Num(p[1]), Num(p[2])) : p \in ProjOut}

\* calculate_convergence / calculate_scale_factor: math.radians, math.tan and
\* math.sin raise on a str and on inf, and carry nan through; the finite
\* value itself is not computed
calculate_convergence(lat, lon, central_meridian) ==
    IF lat.t = "str" \/ lon.t = "str" THEN Raise("must be real number, not str")
    ELSE IF lat.t = "inf" \/ lon.t = "inf" THEN Raise("math domain error")
    ELSE IF lat.t = "nan" \/ lon.t = "nan" THEN Value(NaN)
    ELSE Value(Computed("convergence"))

calculate_scale_factor(lat, lon, central_meridian) ==
    IF lat.t = "str" \/ lon.t = "str" THEN Raise("must be real number, not str")
    ELSE IF lat.t = "inf" \/ lon.t = "inf" THEN Raise("math domain error")
    ELSE IF lat.t = "nan" \/ lon.t = "nan" THEN Value(NaN)
    ELSE Value(Computed("scale_factor"))

(***************************************************************************)
(* Responses: jsonify(body) with a status; result is <<>> or <<body>>.     *)
(***************************************************************************)
ErrorResp(status, msg) == [status |-> status, error |-> msg, result |-> <<>>]
OkResp(body) == [status |-> 200, error |-> "", result |-> <<body>>]

(***************************************************************************)
(* POST /api/transform                                                     *)
(***************************************************************************)
\* the metadata block: <<>> when absent
Metadata(source_crs, target_crs, x, y) ==
    IF target_crs \in {"UTM_30N", "UTM_31N"} /\ source_crs = "WGS84"
    THEN LET central_meridian == IF target_crs = "UTM_30N" THEN 0 - 3 ELSE 3
             conv == calculate_convergence(y, x, central_meridian)
             scale == calculate_scale_factor(y, x, central_meridian)
         IN  IF conv.raised THEN Raise(conv.msg)
             ELSE IF scale.raised THEN Raise(scale.msg)
             ELSE [raised |-> FALSE, msg |-> "",
                   val |-> <<[zone |-> target_crs,
                              central_meridian |-> central_meridian,
                              convergence |-> conv.val,
                              scale_factor |-> scale.val]>>]
    ELSE [raised |-> FALSE, msg |-> "", val |-> <<>>]

\* the 'target' block of a result
TargetBlock(target_crs, out) ==
    [crs |-> target_crs, x |-> round(out.tx), y |-> round(out.ty)]

\* lines 176-215: from the library's outcome to the response
TransformResult(source_crs, target_crs, x, y, out) ==
    IF out.raised THEN ErrorResp(500, out.msg)
    ELSE LET md == Metadata(source_crs, target_crs, x, y)
         IN  IF md.raised THEN ErrorResp(500, md.msg)
             ELSE OkResp([source |-> [crs |-> source_crs, x |-> x, y |-> y],
                          target |-> TargetBlock(target_crs, out),
                          metadata |-> md.val,
                          accuracy |-> AccuracyFor(source_crs, target_crs)])

\* the registry check forgetting the target
InvalidCrs_source_only(source_def, target_def) == source_def = ""

\* the registry check of both handlers: `not source_def or not target_def`
InvalidCrs(source_def, target_def) == source_def = "" \/ target_def = ""

\* the pair read from the request for a source CRS
SourceAxes(source_crs, coordinates) ==
    IF source_crs = "WGS84"
    THEN <<coordinates.lon, coordinates.lat>>
    ELSE <<coordinates.x, coordinates.y>>

\* `x is None or y is None`
AxisMissing(x, y) == IsNone(x) \/ IsNone(y)

\* the responses transform_coordinates can give to a request
transform_coordinates(data) ==
    LET source_crs == data.source_crs
        target_crs == data.target_crs
        coordinates == data.coordinates
    IN  IF ~(source_crs # "" /\ target_crs # "" /\ coordinates.given)
        THEN {ErrorResp(400, "Missing required parameters")}
        ELSE IF InvalidCrs(CrsGet(source_crs), CrsGet(target_crs))
        THEN {ErrorResp(400, "Invalid CRS specified")}
        ELSE
        LET auto == /\ source_crs = "WGS84"
                    /\ StartsWith(target_crs, "UTM")
                    /\ target_crs = "UTM_AUTO"
            lon == Or(coordinates.lon, coordinates.x)
        IN  IF auto /\ ~IsFloat(lon)
            THEN {ErrorResp(500, "'<=' not supported between instances of 'int' and '" \o lon.t \o "'")}
            ELSE
            LET target2 == IF auto THEN get_utm_zone(lon) ELSE target_crs
                target_def == IF auto THEN CrsGet(target2) ELSE CrsGet(target_crs)
                transformer == from_crs(CrsGet(source_crs), target_def)
                xy == SourceAxes(source_crs, coordinates)
            IN  IF AxisMissing(xy[1], xy[2])
                THEN {ErrorResp(400, "Invalid coordinate values")}
                ELSE {TransformResult(source_crs, target2, xy[1], xy[2], out) :
                         out \in transform(transformer, xy[1], xy[2])}

(***************************************************************************)
(* POST /api/validate, x and y whole numbers                               *)
(* (the messages are given without their degree signs)                     *)
(***************************************************************************)
\* list.append when the condition holds
AppendIf(cond, list, msg) == IF cond THEN Append(list, msg) ELSE list

\* the flag cleared by the Ghana bounds as well
ValidFlag_cleared_by_warnings(crs, x, y) ==
    IF crs = "WGS84"
    THEN ~(~(0 - 4 <= x /\ x <= 2) \/ ~(4 <= y /\ y <= 12))
    ELSE TRUE

\* validation['valid'] after the checks that can clear it
ValidFlag(crs, x, y) ==
    IF crs = "WGS84"
    THEN ~(~(0 - 180 <= x /\ x <= 180) \/ ~(0 - 90 <= y /\ y <= 90))
    ELSE TRUE

validate_coordinates(crs, x, y) ==
    IF crs = "WGS84"
    THEN [valid |-> ValidFlag(crs, x, y),
          errors |->
            AppendIf(~(0 - 90 <= y /\ y <= 90),
                AppendIf(~(0 - 180 <= x /\ x <= 180), <<>>,
                    "Longitude must be between -180 and 180 degrees"),
                "Latitude must be between -90 and 90 degrees"),
          warnings |->
            AppendIf(~(4 <= y /\ y <= 12),
                AppendIf(~(0 - 4 <= x /\ x <= 2), <<>>,
                    "Longitude outside Ghana bounds (approximately -4 to 2)"),
                "Latitude outside Ghana bounds (approximately 4 to 12)")]
    ELSE IF crs \in {"UTM_30N", "UTM_31N"}
    THEN [valid |-> ValidFlag(crs, x, y),
          errors |-> <<>>,
          warnings |->
            AppendIf(~(0 <= y /\ y <= 10000000),
                AppendIf(~(160000 <= x /\ x <= 840000), <<>>,
                    "Easting outside typical UTM zone range"),
                "Northing outside typical Northern hemisphere range")]
    ELSE IF crs = "GHANA_GRID"
    THEN [valid |-> ValidFlag(crs, x, y),
          errors |-> <<>>,
          warnings |->
            AppendIf(~(0 <= y /\ y <= 1000000),
                AppendIf(~(0 <= x /\ x <= 500000), <<>>,
                    "Easting outside typical Ghana Grid range"),
                "Northing outside typical Ghana Grid range")]
    ELSE [valid |-> ValidFlag(crs, x, y), errors |-> <<>>, warnings |-> <<>>]

(***************************************************************************)
(* POST /api/transform-batch                                               *)
(***************************************************************************)
Columns == {"lon", "longitude", "x", "X", "easting",
            "lat", "latitude", "y", "Y", "northing"}

\* a row of csv.DictReader: row.get(c) is None for a column the row lacks
Row(cells) == [c \in Columns |-> IF c \in DOMAIN cells THEN Str(cells[c]) ELSE None]

\* the two cells float() is applied to (lines 254-259)
RowAxes(source_crs, row) ==
    IF source_crs = "WGS84"
    THEN <<Or(Or(Or(row["lon"], row["longitude"]), row["x"]), row["X"]),
           Or(Or(Or(row["lat"], row["latitude"]), row["y"]), row["Y"])>>
    ELSE <<Or(Or(row["x"], row["X"]), row["easting"]),
           Or(Or(row["y"], row["Y"]), row["northing"])>>

\* the error entry with a 0-based index
RowError_zero_based(idx, msg) == [ok |-> FALSE, entry |-> [row |-> idx - 1, error |-> msg]]

\* errors.append({'row': idx, 'error': str(e)})
RowError(idx, msg) == [ok |-> FALSE, entry |-> [row |-> idx, error |-> msg]]

\* results.append(result_row)
RowSuccess(row, target_crs, out) ==
    [ok |-> TRUE,
     entry |-> [row |-> row,
                transformed_x |-> round(out.tx),
                transformed_y |-> round(out.ty),
                target_crs |-> target_crs]]

\* the outcomes of one pass through the loop body (lines 252-273)
ProcessRow(source_crs, target_crs, transformer, idx, row) ==
    LET cells == RowAxes(source_crs, row)
        x == float(cells[1])
        y == float(cells[2])
    IN  IF x.raised THEN {RowError(idx, x.msg)}
        ELSE IF y.raised THEN {RowError(idx, y.msg)}
        ELSE {IF out.raised THEN RowError(idx, out.msg)
                            ELSE RowSuccess(row, target_crs, out) :
                 out \in transform(transformer, x.val, y.val)}

\* the response after the loop (lines 275-280)
BatchResponse(results, errors) ==
    OkResp([success |-> TRUE,
            total_processed |-> Len(results),
            errors |-> errors,
            data |-> results])

(***************************************************************************)
(* The requests the model sends.                                           *)
(***************************************************************************)
\* registered codes, the automatic zone request, an unknown code, no code
CodeInputs == {"WGS84", "UTM_30N", "UTM_31N", "GHANA_GRID", "WEB_MERCATOR",
               "UTM_AUTO", "BOGUS", ""}

LonInputs == {None, Str("abc"), Num(0 - 6 * Unit), Num(0 - 1), Num(0),
              Num(6 * Unit), Num(10 * Unit), Inf}
LatInputs == {None, Str("5.6"), Num(0), Num(5 * Unit + 4), Num(90 * Unit), NaN}
XInputs == {None, Str("abc"), Num(0), Num(12345678)}
YInputs == {None, Num(0), Num(98765433)}

\* request.json['coordinates']: missing or empty, or an object whose keys
\* lon, lat, x, y may be missing (None)
CoordinateInputs ==
    {[given |-> FALSE, lon |-> None, lat |-> None, x |-> None, y |-> None]}
    \cup [given : {TRUE}, lon : LonInputs, lat : LatInputs, x : XInputs, y : YInputs]

ValidateInputs == {0 - 181, 0 - 180, 0 - 91, 0 - 90, 0 - 5, 0 - 4, 0 - 1, 0, 2, 3,
                   4, 12, 13, 90, 91, 180, 181, 159999, 160000, 500000, 500001,
                   840000, 840001, 1000000, 1000001, 10000000, 10000001}

BatchCodes == {"WGS84", "UTM_30N", "BOGUS", ""}

RowSet ==
    {Row([lon |-> "-1.5", lat |-> "5.6"]),
     Row([lon |-> "abc", x |-> "100", lat |-> "5.6", y |-> "200"]),
     Row([lon |-> "", x |-> "100", lat |-> "5.6", y |-> "200"]),
     Row([x |-> "100", y |-> "200"]),
     Row([easting |-> "100", northing |-> "200", X |-> "", Y |-> ""]),
     Row([longitude |-> "nan", latitude |-> "5.6"])}

Files == UNION {[1..n -> RowSet] : n \in 0..MaxRows}

(***************************************************************************)
(* State: the request being served and its response, and the locals of a   *)
(* transform_batch call in progress.  The handlers share no mutable state, *)
(* so a behaviour serves one request.                                      *)
(***************************************************************************)
VARIABLES op, req, resp, bpc, transformer, csv_input, idx, results, errors

vars == <<op, req, resp, bpc, transformer, csv_input, idx, results, errors>>

NoResp == [status |-> 0, error |-> "", result |-> <<>>]
NoTransformer == from_crs("", "")

BatchIdle ==
    /\ bpc' = "idle"
    /\ transformer' = NoTransformer
    /\ csv_input' = <<>>
    /\ idx' = 0
    /\ results' = <<>>
    /\ errors' = <<>>

Init ==
    /\ op = "none"
    /\ req = <<>>
    /\ resp = NoResp
    /\ bpc = "idle"
    /\ transformer = NoTransformer
    /\ csv_input = <<>>
    /\ idx = 0
    /\ results = <<>>
    /\ errors = <<>>

\* POST /api/transform
Transform ==
    /\ op = "none"
    /\ \E s \in CodeInputs, t \in CodeInputs, c \in CoordinateInputs :
         LET data == [source_crs |-> s, target_crs |-> t, coordinates |-> c]
         IN  /\ op' = "transform"
             /\ req' = data
             /\ \E r \in transform_coordinates(data) : resp' = r
    /\ BatchIdle

\* POST /api/validate
Validate ==
    /\ op = "none"
    /\ \E crs \in CodeInputs, x \in ValidateInputs, y \in ValidateInputs :
         /\ op' = "validate"
         /\ req' = [crs |-> crs, x |-> x, y |-> y]
         /\ resp' = OkResp(validate_coordinates(crs, x, y))
    /\ BatchIdle

\* POST /api/transform-batch, up to the loop (lines 223-249)
BatchBegin ==
    /\ op = "none"
    /\ \E has_file \in BOOLEAN, s \in BatchCodes, t \in BatchCodes, file \in Files :
         /\ op' = "batch"
         /\ req' = [has_file |-> has_file, source_crs |-> s, target_crs |-> t]
         /\ IF ~has_file
            THEN resp' = ErrorResp(400, "No file uploaded") /\ BatchIdle
            ELSE IF s = "" \/ t = ""
            THEN resp' = ErrorResp(400, "Missing CRS parameters") /\ BatchIdle
            ELSE IF InvalidCrs(CrsGet(s), CrsGet(t))
            THEN resp' = ErrorResp(400, "Invalid CRS specified") /\ BatchIdle
            ELSE /\ resp' = NoResp
                 /\ bpc' = "loop"
                 /\ transformer' = from_crs(CrsGet(s), CrsGet(t))
                 /\ csv_input' = file
                 /\ idx' = 0
                 /\ results' = <<>>
                 /\ errors' = <<>>

\* one pass through `for idx, row in enumerate(csv_input, start=1)`
BatchRow ==
    /\ bpc = "loop"
    /\ idx < Len(csv_input)
    /\ idx' = idx + 1
    /\ \E o \in ProcessRow(req.source_crs, req.target_crs, transformer,
                           idx + 1, csv_input[idx + 1]) :
         IF o.ok
         THEN results' = Append(results, o.entry) /\ errors' = errors
         ELSE errors' = Append(errors, o.entry) /\ results' = results
    /\ UNCHANGED <<op, req, resp, bpc, transformer, csv_input>>

\* the loop is exhausted: return jsonify({...})
BatchReturn ==
    /\ bpc = "loop"
    /\ idx = Len(csv_input)
    /\ resp' = BatchResponse(results, errors)
    /\ bpc' = "idle"
    /\ UNCHANGED <<op, req, transformer, csv_input, idx, results, errors>>

Next == Transform \/ Validate \/ BatchBegin \/ BatchRow \/ BatchReturn

Spec == Init /\ [][Next]_vars

(***************************************************************************)
(* Vocabulary of the properties.                                           *)
(***************************************************************************)
Registered(code) == code \in DOMAIN CRS_DEFINITIONS

\* the error kinds, as the messages the handlers give them
CRS_NOT_FOUND == "Invalid CRS specified"
MISSING_COORDINATE == {"Invalid coordinate values", "Missing required parameters"}

HasResult == Len(resp.result) = 1
Body == resp.result[1]

BatchCompleted == op = "batch" /\ bpc = "idle" /\ resp.status = 200

\* the 1-based indexes of the rows consumed so far that have an error entry
ErrRows == {errors[k].row : k \in 1..Len(errors)}
OkRows == (1..idx) \ ErrRows

\* the k-th smallest member of a set of integers
Nth(S, k) == CHOOSE i \in S : Cardinality({j \in S : j < i}) = k - 1

\* the nearest number with six decimals, written without round()
SixDecimals(a, b) ==
    /\ IsFinite(b)
    /\ b.v % 10 = 0
    /\ b.v - a.v <= 5
    /\ a.v - b.v <= 5

(***************************************************************************)
(* C1.  In a batch run with registered codes every consumed row 1..idx has *)
(* exactly one outcome, a success entry or an error entry carrying its     *)
(* 1-based index, so successes + errors = rows consumed; the successes are *)
(* the rows without an error entry, in input order; and a batch that       *)
(* returns has consumed every row and reports exactly these lists.         *)
(***************************************************************************)
C1_RowAccounting ==
    op = "batch" /\ (bpc = "loop" \/ resp.status = 200) =>
        /\ Len(results) + Len(errors) = idx
        /\ ErrRows \subseteq 1..idx
        /\ Cardinality(ErrRows) = Len(errors)
        /\ \A k \in 1..Len(errors) : \A m \in 1..Len(errors) :
               k < m => errors[k].row < errors[m].row
        /\ Len(results) = Cardinality(OkRows)
        /\ \A k \in 1..Len(results) : results[k].row = csv_input[Nth(OkRows, k)]
        /\ BatchCompleted =>
               /\ idx = Len(csv_input)
               /\ Body.data = results
               /\ Body.errors = errors
               /\ Body.total_processed + Len(Body.errors) = Len(csv_input)

\* three rows, the second fails, the first and third succeed
C1_Witness ==
    /\ BatchCompleted
    /\ Len(csv_input) = 3
    /\ ErrRows = {2}
    /\ Len(Body.data) = 2
    /\ Body.data[1].row = csv_input[1]
    /\ Body.data[2].row = csv_input[3]

C3_FiniteResults ==
    /\ op = "transform" /\ HasResult =>
           IsFinite(Body.target.x) /\ IsFinite(Body.target.y)
    /\ op = "batch" =>
           \A k \in 1..Len(results) :
               IsFinite(results[k].transformed_x) /\ IsFinite(results[k].transformed_y)

(***************************************************************************)
(* C4.  transform from WGS84 to UTM_AUTO with a numeric longitude and      *)
(* latitude succeeds, and the result's target CRS is UTM_30N for           *)
(* -6 <= lon < 0, UTM_31N for 0 <= lon <= 6 and UTM_30N otherwise.         *)
(***************************************************************************)
C4_AutoZone ==
    /\ op = "transform"
    /\ req.source_crs = "WGS84"
    /\ req.target_crs = "UTM_AUTO"
    /\ req.coordinates.given
    /\ IsFinite(req.coordinates.lon)
    /\ IsFinite(req.coordinates.lat)
    => /\ resp.error # CRS_NOT_FOUND
       /\ HasResult
       /\ Body.target.crs =
            IF 0 - 6 * Unit <= req.coordinates.lon.v /\ req.coordinates.lon.v < 0
            THEN "UTM_30N"
            ELSE IF 0 <= req.coordinates.lon.v /\ req.coordinates.lon.v <= 6 * Unit
                 THEN "UTM_31N"
                 ELSE "UTM_30N"

(***************************************************************************)
(* C5.  transformBatch with registered codes and no data rows returns an   *)
(* error (NO_ROWS), not a successful batch result.                         *)
(***************************************************************************)
C5_NoRows ==
    /\ op = "batch"
    /\ bpc = "idle"
    /\ req.has_file
    /\ Registered(req.source_crs) /\ Registered(req.target_crs)
    /\ Len(csv_input) = 0
    => resp.status # 200 /\ ~HasResult

(***************************************************************************)
(* C6.  transform with registered codes fails with MISSING_COORDINATE and  *)
(* no result exactly when one of the two axis values the source CRS needs  *)
(* (lon/lat for WGS84, x/y otherwise) is absent or is not a number.  Axis  *)
(* values given as the text of a number are left out of the statement.     *)
(***************************************************************************)
C6_MissingCoordinate ==
    LET c == req.coordinates
        a == IF req.source_crs = "WGS84" THEN c.lon ELSE c.x
        b == IF req.source_crs = "WGS84" THEN c.lat ELSE c.y
        NumberText(v) == v.t = "str" /\ v.s \in {"0", "-1.5", "5.6", "100", "200"}
        Unusable(v) == v.t = "none" \/ (v.t = "str" /\ ~NumberText(v))
    IN  /\ op = "transform"
        /\ Registered(req.source_crs) /\ Registered(req.target_crs)
        /\ ~NumberText(a) /\ ~NumberText(b)
        => ((resp.error \in MISSING_COORDINATE /\ ~HasResult)
               <=> (~c.given \/ Unusable(a) \/ Unusable(b)))

(***************************************************************************)
(* C7.  The report of validate has valid = (errors is empty); errors is    *)
(* non-empty exactly for WGS84 with x outside [-180, 180] or y outside     *)
(* [-90, 90]; UTM_30N, UTM_31N and GHANA_GRID never give errors; any other *)
(* code gives a valid report with no errors and no warnings; WGS84 (180,0) *)
(* is valid with a warning and WGS84 (181, 0) is invalid.                  *)
(***************************************************************************)
C7_Validation ==
    op = "validate" =>
        /\ HasResult
        /\ Body.valid = (Body.errors = <<>>)
        /\ (Body.errors # <<>>) =
               (/\ req.crs = "WGS84"
                /\ (req.x < 0 - 180 \/ req.x > 180 \/ req.y < 0 - 90 \/ req.y > 90))
        /\ req.crs \in {"UTM_30N", "UTM_31N", "GHANA_GRID"} =>
               Body.valid /\ Body.errors = <<>>
        /\ req.crs \notin {"WGS84", "UTM_30N", "UTM_31N", "GHANA_GRID"} =>
               Body.valid /\ Body.errors = <<>> /\ Body.warnings = <<>>
        /\ req.crs = "WGS84" /\ req.x = 180 /\ req.y = 0 =>
               Body.valid /\ Body.warnings # <<>>
        /\ req.crs = "WGS84" /\ req.x = 181 /\ req.y = 0 => ~Body.valid

\* WGS84 (180, 0): a valid report that carries warnings
C7_Witness ==
    /\ op = "validate"
    /\ req.crs = "WGS84" /\ req.x = 180 /\ req.y = 0
    /\ Body.valid
    /\ Body.errors = <<>>
    /\ Len(Body.warnings) = 2

(***************************************************************************)
(* C8.  A successful transform carries the accuracy record of its pair:    *)
(* WGS84 to a UTM zone the WGS84-to-UTM record, WGS84 to GHANA_GRID, a UTM *)
(* zone to GHANA_GRID and GHANA_GRID to WGS84 their records, and a pair    *)
(* that is not documented the generic descriptor "1-5 meters".             *)
(***************************************************************************)
C8_Accuracy ==
    LET s == req.source_crs
        t == Body.target.crs
        Utm == {"UTM_30N", "UTM_31N"}
    IN  op = "transform" /\ HasResult =>
            /\ s = "WGS84" /\ t \in Utm =>
                   Body.accuracy = TRANSFORMATION_ACCURACY["WGS84_to_UTM"]
            /\ s = "WGS84" /\ t = "GHANA_GRID" =>
                   Body.accuracy = TRANSFORMATION_ACCURACY["WGS84_to_GHANA_GRID"]
            /\ s \in Utm /\ t = "GHANA_GRID" =>
                   Body.accuracy = TRANSFORMATION_ACCURACY["UTM_to_GHANA_GRID"]
            /\ s = "GHANA_GRID" /\ t = "WGS84" =>
                   Body.accuracy = TRANSFORMATION_ACCURACY["GHANA_GRID_to_WGS84"]
            /\ s = "UTM_30N" /\ t = "WEB_MERCATOR" =>
                   Body.accuracy = GenericAccuracy

C10_FirstPresent ==
    LET FirstPresent(row, chain) ==
            IF \E k \in 1..Len(chain) : ~IsNone(row[chain[k]])
            THEN row[chain[CHOOSE k \in 1..Len(chain) :
                        /\ ~IsNone(row[chain[k]])
                        /\ \A j \in 1..(k - 1) : IsNone(row[chain[j]])]]
            ELSE None
        First == IF req.source_crs = "WGS84"
                 THEN <<"lon", "longitude", "x", "X">>
                 ELSE <<"x", "X", "easting">>
        Second == IF req.source_crs = "WGS84"
                  THEN <<"lat", "latitude", "y", "Y">>
                  ELSE <<"y", "Y", "northing">>
    IN  op = "batch" =>
            \A i \in 1..idx :
                (\/ float(FirstPresent(csv_input[i], First)).raised
                 \/ float(FirstPresent(csv_input[i], Second)).raised)
                => i \in ErrRows

====
